---------------------------- MODULE Spec2Model ----------------------------
(***************************************************************************)
(* Model of the VoiceMart query processor                                  *)
(* (services/query-processor/app/processor.py and app/main.py).            *)
(*                                                                         *)
(* Texts are TLA+ strings; a character is a string of length 1.  The       *)
(* regular expressions of the source are translated to syntax trees and    *)
(* run through a backtracking matcher with the priorities of Python's re   *)
(* module (leftmost match, first alternative first, greedy or lazy         *)
(* repetition).  Floats are fixed-point integers counting hundredths.      *)
(***************************************************************************)
EXTENDS Integers, Sequences, FiniteSets, TLC

(***************************************************************************)
(* Characters                                                              *)
(***************************************************************************)
LowerLetters == <<"a","b","c","d","e","f","g","h","i","j","k","l","m",
                  "n","o","p","q","r","s","t","u","v","w","x","y","z">>
UpperLetters == <<"A","B","C","D","E","F","G","H","I","J","K","L","M",
                  "N","O","P","Q","R","S","T","U","V","W","X","Y","Z">>
DigitChars   == <<"0","1","2","3","4","5","6","7","8","9">>

Range(q) == {q[n] : n \in DOMAIN q}

\* Let(v, F): F applied to the value of v, with v evaluated once
Let(v, F(_)) == CHOOSE out \in {F(x) : x \in {v}} : TRUE

Letters == Range(LowerLetters) \cup Range(UpperLetters)
Digits  == Range(DigitChars)
\* \w, \s and the control characters of _sanitize, over the model's alphabet
WordChars  == Letters \cup Digits \cup {"_"}
SpaceChars == {" ", "\t", "\n", "\r", "\f"}
CtrlChars  == {"\f"}

IndexOf(q, c) == CHOOSE n \in DOMAIN q : q[n] = c

\* str.lower() on one character
LowerChar(c) == IF c \in Range(UpperLetters) THEN LowerLetters[IndexOf(UpperLetters, c)] ELSE c

At(s, i) == SubSeq(s, i, i)

\* the least and the greatest element of a non-empty set of integers
Least(S)    == CHOOSE n \in S : \A m \in S : n <= m
Greatest(S) == CHOOSE n \in S : \A m \in S : n >= m

\* str.lower() of the characters lo..hi, by halves
RECURSIVE LowerRange(_, _, _)
LowerRange(s, lo, hi) ==
    IF lo > hi THEN ""
    ELSE IF lo = hi THEN LowerChar(At(s, lo))
    ELSE LowerRange(s, lo, (lo + hi) \div 2) \o LowerRange(s, (lo + hi) \div 2 + 1, hi)
\* str.lower()
Lower(s0) == Let(s0, LAMBDA s : LowerRange(s, 1, Len(s)))

IsSpace(c) == c \in SpaceChars

\* the positions of s that hold no white space
Inked(s) == {i \in 1..Len(s) : ~IsSpace(At(s, i))}
\* str.strip()
Strip(s0) ==
    Let(s0, LAMBDA s :
    Let(Inked(s), LAMBDA inked :
        IF inked = {} THEN "" ELSE SubSeq(s, Least(inked), Greatest(inked))))

(***************************************************************************)
(* Regular expressions: syntax trees                                       *)
(***************************************************************************)
Lit(s)       == [k |-> "lit", s |-> s]          \* literal text, re.I
Cls(S)       == [k |-> "cls", cs |-> S]         \* one character of a class
NotCls(S)    == [k |-> "ncls", cs |-> S]        \* one character outside a class
Cat(rs)      == [k |-> "cat", rs |-> rs]        \* r1 r2 ... rn
Alt(rs)      == [k |-> "alt", rs |-> rs]        \* r1 | r2 | ... | rn
Star(r)      == [k |-> "star", r |-> r, lazy |-> FALSE]   \* r*
Plus(r)      == [k |-> "plus", r |-> r, lazy |-> FALSE]   \* r+
PlusLazy(r)  == [k |-> "plus", r |-> r, lazy |-> TRUE]    \* r+?
Opt(r)       == [k |-> "opt", r |-> r]          \* r?
Grp(name, r) == [k |-> "grp", name |-> name, r |-> r]     \* (?P<name>r)
Look(r)      == [k |-> "look", r |-> r]         \* (?=r)
Bol          == [k |-> "bol"]                   \* ^
Eol          == [k |-> "eol"]                   \* $
WordB        == [k |-> "wordb"]                 \* \b
AnyChar      == NotCls({"\n"})                  \* .

\* alternation of literal words, in the order written
Words(ws) == Alt([n \in DOMAIN ws |-> Lit(ws[n])])

WS0 == Star(Cls(SpaceChars))                    \* \s*
WS1 == Plus(Cls(SpaceChars))                    \* \s+

(***************************************************************************)
(* The matcher.  M(r, s, i, caps) is the sequence of all ways r can match  *)
(* s from position i, in the order a backtracking engine tries them; each  *)
(* is <<position after the match, capture groups>>.  A capture group is a  *)
(* pair <<first, last+1>> of positions.                                    *)
(***************************************************************************)
NoCaps == << >>
NoMatch == [ok |-> FALSE]

IsWordAt(s, i) == i >= 1 /\ i <= Len(s) /\ At(s, i) \in WordChars

\* the literal w stands in s at position i, letters compared without case
LitAt(w, s, i) ==
    /\ i + Len(w) - 1 <= Len(s)
    /\ \A n \in 1..Len(w) : LowerChar(At(s, i + n - 1)) = LowerChar(At(w, n))

InClass(c, S) == c \in S \/ LowerChar(c) \in S

\* the concatenation of the sequences ss[lo], ..., ss[hi], by halves
RECURSIVE FlatRange(_, _, _)
FlatRange(ss, lo, hi) ==
    IF lo > hi THEN << >>
    ELSE IF lo = hi THEN ss[lo]
    ELSE FlatRange(ss, lo, (lo + hi) \div 2) \o FlatRange(ss, (lo + hi) \div 2 + 1, hi)
Flat(ss) == FlatRange(ss, 1, Len(ss))

\* r is a class or the complement of one: whether the character at j belongs to it
OneChar(r, s, j) == IF r.k = "cls" THEN InClass(At(s, j), r.cs) ELSE ~InClass(At(s, j), r.cs)

\* where a run ends: at the first of the positions `out`, or at `end` when there is none
RunTo(out, end) == IF out = {} THEN end ELSE Least(out)

\* how many characters from position i on belong to the class r
RunLen(r, s, i) == RunTo({j \in i..Len(s) : ~OneChar(r, s, j)}, Len(s) + 1) - i

\* the repetition r of a class over a run of `run` characters from i: every length from
\* `least` to run, the longest first when greedy and the shortest first when lazy
Runs(r, i, caps, least, run) ==
    [n \in 1..(run - least + 1) |->
        <<IF r.lazy THEN i + least + n - 1 ELSE i + run - n + 1, caps>>]

IsClass(r) == r.k \in {"cls", "ncls"}

\* the ways `inner` of a group's pattern from position i, each recording the group
Named(name, i, inner) ==
    [n \in DOMAIN inner |-> <<inner[n][1], (name :> <<i, inner[n][1]>>) @@ inner[n][2]>>]

RECURSIVE M(_, _, _, _), MCat(_, _, _, _), MThen(_, _, _), MRep(_, _, _, _),
          MRepThen(_, _, _)
M(r, s, i, caps) ==
    CASE r.k = "lit"   -> IF LitAt(r.s, s, i) THEN << <<i + Len(r.s), caps>> >> ELSE << >>
      [] r.k = "cls"   -> IF i <= Len(s) /\ InClass(At(s, i), r.cs)
                          THEN << <<i + 1, caps>> >> ELSE << >>
      [] r.k = "ncls"  -> IF i <= Len(s) /\ ~InClass(At(s, i), r.cs)
                          THEN << <<i + 1, caps>> >> ELSE << >>
      [] r.k = "cat"   -> MCat(r.rs, s, i, caps)
      [] r.k = "alt"   -> Flat([n \in DOMAIN r.rs |-> M(r.rs[n], s, i, caps)])
      [] r.k = "star"  -> IF IsClass(r.r) THEN Runs(r, i, caps, 0, RunLen(r.r, s, i))
                          ELSE MRep(r, s, i, caps)
      [] r.k = "plus"  -> IF IsClass(r.r) THEN Runs(r, i, caps, 1, RunLen(r.r, s, i))
                          ELSE MRepThen(r, s, M(r.r, s, i, caps))
      [] r.k = "opt"   -> M(r.r, s, i, caps) \o << <<i, caps>> >>
      [] r.k = "grp"   -> Named(r.name, i, M(r.r, s, i, caps))
      [] r.k = "look"  -> IF M(r.r, s, i, caps) # << >> THEN << <<i, caps>> >> ELSE << >>
      [] r.k = "bol"   -> IF i = 1 THEN << <<i, caps>> >> ELSE << >>
      [] r.k = "eol"   -> IF i = Len(s) + 1 \/ (i = Len(s) /\ At(s, i) = "\n")
                          THEN << <<i, caps>> >> ELSE << >>
      [] r.k = "wordb" -> IF IsWordAt(s, i - 1) # IsWordAt(s, i)
                          THEN << <<i, caps>> >> ELSE << >>

\* r1 r2 ... rn: every way of r1, each continued by the rest
MCat(rs, s, i, caps) ==
    IF rs = << >> THEN << <<i, caps>> >> ELSE MThen(Tail(rs), s, M(Head(rs), s, i, caps))

\* each way in firsts, continued by the patterns of rest
MThen(rest, s, firsts) ==
    Flat([n \in DOMAIN firsts |-> MCat(rest, s, firsts[n][1], firsts[n][2])])

\* r* (greedy) or r*? (lazy) from position i
MRep(r, s, i, caps) ==
    IF r.lazy THEN << <<i, caps>> >> \o MRepThen(r, s, M(r.r, s, i, caps))
    ELSE MRepThen(r, s, M(r.r, s, i, caps)) \o << <<i, caps>> >>

\* after one more iteration of r.r (each way in firsts), zero or more further ones
MRepThen(r, s, firsts) ==
    Flat([n \in DOMAIN firsts |->
            MRep([k |-> "star", r |-> r.r, lazy |-> r.lazy], s, firsts[n][1], firsts[n][2])])

\* the ways of r from each position from `from` on
Ways(r, s, from) == [f \in from..(Len(s) + 1) |-> M(r, s, f, NoCaps)]

\* the match object for the best way from position `start`
MatchAt(start, way) == [ok |-> TRUE, start |-> start, end |-> way[1], caps |-> way[2]]

\* the positions where there is a way
Matched(ways) == {f \in DOMAIN ways : ways[f] # << >>}

\* the first of the positions with a way, and its best way
FirstMatch(ways) ==
    IF Matched(ways) = {} THEN NoMatch
    ELSE MatchAt(Least(Matched(ways)), ways[Least(Matched(ways))][1])

\* pattern.search(text) from position `from`: the leftmost match, best priority
SearchFrom(r, s, from) == FirstMatch(Ways(r, s, from))

Search(r, s0) == Let(s0, LAMBDA s : SearchFrom(r, s, 1))

\* Python's Optional: None is the empty tuple, a value v is <<v>>
None == << >>
Some(v) == <<v>>
IsSome(o) == o # << >>
Val(o) == o[1]

\* m.group(name), None when the group did not take part
Group(s, m, name) ==
    IF m.ok /\ name \in DOMAIN m.caps
    THEN Some(SubSeq(s, m.caps[name][1], m.caps[name][2] - 1))
    ELSE None

\* re.sub(pattern, repl, text) for a constant replacement
RECURSIVE SubFrom(_, _, _, _)
SubFrom(r, repl, s, from) ==
    Let(SearchFrom(r, s, from), LAMBDA m :
        IF ~m.ok THEN SubSeq(s, from, Len(s))
        ELSE SubSeq(s, from, m.start - 1) \o repl \o
             (IF m.end > m.start THEN SubFrom(r, repl, s, m.end)
              ELSE IF m.start <= Len(s)
                   THEN At(s, m.start) \o SubFrom(r, repl, s, m.start + 1)
                   ELSE ""))

Sub(r, repl, s0) == Let(s0, LAMBDA s : SubFrom(r, repl, s, 1))

(***************************************************************************)
(* Lexicons and patterns                                                   *)
(***************************************************************************)
WORD_NUM == [a |-> 1, an |-> 1, one |-> 1, two |-> 2, three |-> 3, four |-> 4, five |-> 5,
             six |-> 6, seven |-> 7, eight |-> 8, nine |-> 9, ten |-> 10,
             dozen |-> 12, pair |-> 2, pairs |-> 2]

\* w followed by an optional "s":  packs?
WordS(w) == Cat(<<Lit(w), Opt(Lit("s"))>>)

UOMS == Grp("uom_1",
          Alt(<<WordS("pack"), WordS("packet"), WordS("piece"), WordS("pc"), WordS("bottle"),
                WordS("unit"), WordS("can"), WordS("bag"), WordS("boxe"),
                Lit("kg"), Lit("g"), Lit("lb"), Lit("lbs"), Lit("ml"), Lit("l"),
                WordS("liter"), WordS("litre")>>))

COLORS == Grp("1",
            Words(<<"black", "white", "red", "blue", "green", "yellow", "pink", "purple",
                    "silver", "gold", "gray", "grey", "brown", "beige", "navy", "orange">>))

SIZES == Grp("1",
           Alt(<<Lit("xxs"), Lit("xs"), Lit("s"), Lit("m"), Lit("l"), Lit("xl"), Lit("xxl"),
                 Lit("xxxl"), Lit("small"), Lit("medium"), Lit("large"),
                 Cat(<<Plus(Cls(Digits)), Alt(<<Lit("x"), Lit("×")>>), Plus(Cls(Digits))>>),
                 Cat(<<Plus(Cls(Digits)),
                       Opt(Cat(<<Lit("."), Plus(Cls(Digits))>>)),
                       Words(<<"cm", "mm", "in", "inch", "inches">>)>>)>>))

BrandWords == <<"nike", "adidas", "puma", "reebok", "samsung", "apple", "sony", "dell", "hp",
                "lenovo", "milo", "nestle", "coke", "pepsi", "asus", "acer", "msi">>
BRANDS == Grp("1", Words(BrandWords))

CategoryOrder == <<"shoes", "laptops", "phones", "tshirts", "beverages">>
CATEGORY_KEYWORDS ==
    [shoes     |-> <<"shoe", "shoes", "sneaker", "sneakers", "heels", "sandals", "boots">>,
     laptops   |-> <<"laptop", "notebook", "macbook", "chromebook">>,
     phones    |-> <<"phone", "smartphone", "iphone", "android">>,
     tshirts   |-> <<"t-shirt", "t shirt", "tee", "tees">>,
     beverages |-> <<"milo", "coke", "pepsi", "coffee", "tea", "juice", "soda">>]

\* (pattern, replacement) in the order of the table
TERM_FIXES ==
    << <<Cat(<<WordB, Lit("shows"), WordB>>),  "shoes">>,
       <<Cat(<<WordB, Lit("mellow"), WordB>>), "milo">>,
       <<Cat(<<WordB, Lit("cocks"), WordB>>),  "coke">> >>

\* [\$£€] is written as an alternation of the three symbols
CURRENCY_SYMBOLS ==
    Alt(<<Alt(<<Lit("$"), Lit("£"), Lit("€")>>), Cat(<<Lit("Rs"), Opt(Lit("."))>>),
          Lit("LKR"), Lit("USD"), Lit("EUR"), Lit("GBP"),
          Lit("rs"), Lit("lkr"), Lit("usd"), Lit("eur"), Lit("gbp")>>)

CURRENCY_WORDS ==
    [dollar |-> "USD", dollars |-> "USD", usd |-> "USD",
     rupee |-> "LKR", rupees |-> "LKR", rs |-> "LKR", lkr |-> "LKR",
     euro |-> "EUR", euros |-> "EUR", eur |-> "EUR",
     gbp |-> "GBP", pound |-> "GBP", pounds |-> "GBP"]
    @@ ("$" :> "USD") @@ ("€" :> "EUR") @@ ("£" :> "GBP")

CURRENCY_SYMBOL_FOR == [USD |-> "$", LKR |-> "Rs", EUR |-> "€", GBP |-> "£"]

ProductSpan == Grp("product", PlusLazy(Cls(WordChars \cup SpaceChars)))   \* (?P<product>[\w\s]+?)
CartOrBasket == Words(<<"cart", "basket">>)
MyOpt == Opt(Cat(<<Lit("my"), WS0>>))                                     \* (?:my\s*)?

IntentOrder == <<"greeting", "search_product", "add_to_cart", "remove_from_cart",
                 "show_cart", "checkout">>
INTENT_PATTERNS ==
    [greeting |->
        Cat(<<Bol,
              Alt(<<Lit("hi"), Lit("hello"), Lit("hey"), Lit("greetings"),
                    Cat(<<Lit("good"), WS0, Words(<<"morning", "afternoon", "evening">>)>>)>>),
              WordB>>),
     search_product |->
        Cat(<<Alt(<<Lit("find"), Lit("search"), Lit("show"),
                    Cat(<<Lit("looking"), WS0, Lit("for")>>),
                    Lit("need"), Lit("want"), Lit("get")>>),
              WS1,
              Opt(Cat(<<Lit("me"), WS1>>)),
              ProductSpan,
              Opt(Cat(<<WS1, Grp("brand", BRANDS)>>)),
              Alt(<<Cat(<<WS1, Lit("between")>>), Lit("under"), Lit("over"), Lit("from"),
                    Lit("and"), Cat(<<WS0, Eol>>)>>)>>),
     add_to_cart |->
        Cat(<<Words(<<"add", "put", "place">>),
              WS1,
              Opt(Grp("qty_num", Alt(<<Plus(Cls(Digits)), Plus(Cls(WordChars))>>))),
              WS0,
              Opt(Grp("uom", UOMS)),
              WS0,
              Opt(Cat(<<Lit("of"), WS1>>)),
              ProductSpan,
              Look(Cat(<<WS1, Lit("to"), WS1, MyOpt, CartOrBasket>>))>>),
     remove_from_cart |->
        Cat(<<Alt(<<Lit("remove"), Lit("delete"), Cat(<<Lit("take"), WS0, Lit("out")>>)>>),
              WS1,
              ProductSpan,
              WS0,
              Cat(<<Lit("from"), WS0, MyOpt, CartOrBasket>>)>>),
     show_cart |->
        Cat(<<Alt(<<Lit("show"), Lit("view"), Lit("display"),
                    Cat(<<Lit("what"), Opt(Lit("'")), Opt(Lit("s")), WS0, Lit("in")>>)>>),
              WS0, MyOpt, CartOrBasket>>),
     checkout |->
        Alt(<<Lit("checkout"),
              Cat(<<Lit("proceed"), WS0, Lit("to"), WS0, Lit("checkout")>>),
              Cat(<<Lit("place"), WS0, Lit("order")>>),
              Cat(<<Lit("buy"), WS0, Lit("now")>>)>>)]

COLOR_RE == Cat(<<WordB, COLORS, WordB>>)
SIZE_RE  == Cat(<<WordB, SIZES, WordB>>)
BRAND_RE == Cat(<<WordB, BRANDS, WordB>>)

\* [\d,.]+(?:[km])?
Amount == Cat(<<Plus(Cls(Digits \cup {",", "."})), Opt(Cls({"k", "m"}))>>)

PRICE_UNDER_RE ==
    Cat(<<Alt(<<Lit("under"), Lit("below"), Cat(<<Lit("less"), WS0, Lit("than")>>)>>),
          WS0, Opt(Grp("cur", CURRENCY_SYMBOLS)), WS0, Grp("val", Amount)>>)
PRICE_OVER_RE ==
    Cat(<<Alt(<<Lit("over"), Lit("above"), Cat(<<Lit("more"), WS0, Lit("than")>>),
                Cat(<<Lit("at"), WS0, Lit("least")>>)>>),
          WS0, Opt(Grp("cur", CURRENCY_SYMBOLS)), WS0, Grp("val", Amount)>>)
PRICE_BETWEEN_RE ==
    Cat(<<Words(<<"between", "from">>),
          WS0, Opt(Grp("cur1", CURRENCY_SYMBOLS)), WS0, Grp("min", Amount),
          WS0, Alt(<<Lit("and"), Lit("to"), Lit("-")>>),
          WS0, Opt(Grp("cur2", CURRENCY_SYMBOLS)), WS0, Grp("max", Amount)>>)
PRICE_PHRASE_RE ==
    Cat(<<WS0,
          Alt(<<Lit("under"), Lit("below"), Cat(<<Lit("less"), WS0, Lit("than")>>),
                Lit("over"), Lit("above"), Cat(<<Lit("more"), WS0, Lit("than")>>),
                Cat(<<Lit("at"), WS0, Lit("least")>>), Lit("between"), Lit("from")>>),
          WordB, Star(AnyChar), Eol>>)

(***************************************************************************)
(* Helpers                                                                 *)
(***************************************************************************)
Min(a, b) == IF a <= b THEN a ELSE b

_MAX_TEXT_LEN == 600

\* A TLA+ string cannot hold the backquote: the model's texts write it as "~".
Backquote == "~"

\* [\x00-\x08\x0B\x0C\x0E-\x1F] and the injection tokens (code fence, script tags,
\* @everyone, @here)
CtrlRe == Cls(CtrlChars)
InjectionRe ==
    Alt(<<Lit(Backquote \o Backquote \o Backquote), Cat(<<Lit("<"), Opt(Lit("/")), Lit("script>")>>),
          Lit("@everyone"), Lit("@here")>>)

\* a variant that strips before it truncates
SanitizeStripFirst(text) ==
    LET t0 == IF IsSome(text) THEN Strip(Val(text)) ELSE ""
        t1 == Sub(InjectionRe, " ", Sub(CtrlRe, " ", t0))
    IN  SubSeq(t1, 1, Min(Len(t1), _MAX_TEXT_LEN))

\* text is an Optional[str]
_sanitize(text) ==
    LET t0 == IF IsSome(text) THEN Val(text) ELSE ""
        t1 == SubSeq(t0, 1, Min(Len(t0), _MAX_TEXT_LEN))
        t2 == Sub(CtrlRe, " ", t1)
        t3 == Sub(InjectionRe, " ", t2)
    IN  Strip(t3)

RECURSIVE FixFrom(_, _)
FixFrom(text, n) ==
    IF n > Len(TERM_FIXES) THEN text
    ELSE FixFrom(Sub(TERM_FIXES[n][1], TERM_FIXES[n][2], text), n + 1)
_fix_terms(text) == FixFrom(text, 1)

\* s.replace(c, "") over the characters lo..hi, by halves
RECURSIVE RemoveRange(_, _, _, _)
RemoveRange(s, c, lo, hi) ==
    IF lo > hi THEN ""
    ELSE IF lo = hi THEN (IF At(s, lo) = c THEN "" ELSE At(s, lo))
    ELSE RemoveRange(s, c, lo, (lo + hi) \div 2) \o RemoveRange(s, c, (lo + hi) \div 2 + 1, hi)
RemoveChar(s0, c) == Let(s0, LAMBDA s : RemoveRange(s, c, 1, Len(s)))

DigitVal(c) == IndexOf(DigitChars, c) - 1

\* the value of the digits of s, read as a decimal numeral; other characters are skipped
RECURSIVE DigitsValue(_, _, _)
DigitsValue(s, i, acc) ==
    IF i > Len(s) THEN acc
    ELSE DigitsValue(s, i + 1, IF At(s, i) \in Digits THEN 10 * acc + DigitVal(At(s, i)) ELSE acc)

\* the hundredths in the fraction digits frac: the first two digits count
Hundredths(frac) ==
    (IF Len(frac) >= 1 THEN 10 * DigitVal(At(frac, 1)) ELSE 0) +
    (IF Len(frac) >= 2 THEN DigitVal(At(frac, 2)) ELSE 0)

\* an unsigned decimal numeral: digits with at most one point among them, and at least
\* one digit; the value counts hundredths.  None stands for ValueError.
ParseUnsigned(body) ==
    Let({i \in 1..Len(body) : At(body, i) = "."}, LAMBDA dots :
        IF \/ \E i \in 1..Len(body) : At(body, i) \notin Digits \cup {"."}
           \/ Cardinality(dots) > 1
           \/ Len(body) = Cardinality(dots)
        THEN None
        ELSE IF dots = {} THEN Some(100 * DigitsValue(body, 1, 0))
        ELSE Some(100 * DigitsValue(SubSeq(body, 1, Least(dots) - 1), 1, 0) +
                  Hundredths(SubSeq(body, Least(dots) + 1, Len(body)))))

\* float(s) for a decimal numeral with an optional sign.  (Exponents and the spellings
\* inf and nan are not among the strings drawn.)
ParseFloat(str) ==
    Let(Strip(str), LAMBDA t :
        IF Len(t) > 0 /\ At(t, 1) = "-"
        THEN Let(ParseUnsigned(SubSeq(t, 2, Len(t))), LAMBDA f :
                 IF IsSome(f) THEN Some(0 - Val(f)) ELSE None)
        ELSE IF Len(t) > 0 /\ At(t, 1) = "+" THEN ParseUnsigned(SubSeq(t, 2, Len(t)))
        ELSE ParseUnsigned(t))

EndsWith(s, c) == Len(s) > 0 /\ At(s, Len(s)) = c
DropLast(s) == SubSeq(s, 1, Len(s) - 1)

\* f * by for an Optional[float] f
Times(f0, by) == Let(f0, LAMBDA f : IF IsSome(f) THEN Some(Val(f) * by) ELSE None)

\* s is an Optional[str]; the result an Optional[float]
_to_float(s0) ==
    Let(s0, LAMBDA s :
        IF ~IsSome(s) \/ Val(s) = "" THEN None
        ELSE Let(RemoveChar(Lower(Strip(Val(s))), ","), LAMBDA t :
                 IF EndsWith(t, "k") THEN Times(ParseFloat(DropLast(t)), 1000)
                 ELSE IF EndsWith(t, "m") THEN Times(ParseFloat(DropLast(t)), 1000000)
                 ELSE ParseFloat(t)))

\* int(s) for a decimal literal: digits, single underscores between digits allowed
IntLiteralRe ==
    Cat(<<Bol, Plus(Cls(Digits)), Star(Cat(<<Lit("_"), Plus(Cls(Digits))>>)), Eol>>)

ParseInt(str) ==
    IF Search(IntLiteralRe, str).ok THEN Some(DigitsValue(str, 1, 0)) ELSE None

\* s is an Optional[str]; the result an Optional[int]
_to_int(s0) ==
    Let(s0, LAMBDA s :
        IF ~IsSome(s) \/ Val(s) = "" THEN None
        ELSE Let(Lower(Strip(Val(s))), LAMBDA t :
                 IF t \in DOMAIN WORD_NUM THEN Some(WORD_NUM[t]) ELSE ParseInt(t)))

FillerRe ==
    Cat(<<WordB,
          Alt(<<Lit("find"), Lit("search"), Lit("show"), Lit("get"), Lit("need"), Lit("want"),
                Cat(<<Lit("looking"), WS1, Lit("for")>>)>>),
          WordB>>)

_normalize_product(text) ==
    Strip(Sub(WS1, " ", Sub(FillerRe, "", text)))

_strip_price_phrases(text) == Strip(Sub(PRICE_PHRASE_RE, "", text))

\* the result is an Optional[str]
_currency_code(cur_str) ==
    Let(Lower(Strip(cur_str)), LAMBDA c :
        IF c \in DOMAIN CURRENCY_WORDS THEN Some(CURRENCY_WORDS[c]) ELSE None)

\* kw in s
Contains(s, kw) ==
    \E i \in 1..(Len(s) - Len(kw) + 1) : SubSeq(s, i, i + Len(kw) - 1) = kw

\* the categories, by their place in the table, one of whose keywords is in the product
Categories(product_lower) ==
    {c \in DOMAIN CategoryOrder :
        \E kw \in Range(CATEGORY_KEYWORDS[CategoryOrder[c]]) : Contains(product_lower, kw)}

\* the result is an Optional[str]
_infer_category(product) ==
    Let(Lower(product), LAMBDA product_lower :
    Let(Categories(product_lower), LAMBDA cs :
        IF cs = {} THEN None ELSE Some(CategoryOrder[Least(cs)])))

(***************************************************************************)
(* Slots (a Python dict: a function from keys to values) and the entries   *)
(* an AgentMemory collects                                                 *)
(***************************************************************************)
Has(d, k)    == k \in DOMAIN d
Put(d, k, v) == (k :> v) @@ d
Del(d, k)    == [x \in DOMAIN d \ {k} |-> d[x]]
EmptyDict    == << >>

Reasoning(step)        == [kind |-> "reasoning", msg |-> <<step>>]
Observation(what, arg) == [kind |-> "observation", msg |-> <<what, arg>>]
Decision(what, confidence, basis) ==
    [kind |-> "decision", msg |-> <<what, confidence, basis>>]

\* a local working state of process_query: the slots and the entries logged so far
SetSlot(st, k, v) == [st EXCEPT !.slots = Put(st.slots, k, v)]
Log(st, e)        == [st EXCEPT !.log = Append(st.log, e)]

(***************************************************************************)
(* _detect: the first intent, in the table's order, whose pattern matches  *)
(***************************************************************************)
\* the first of the intents ns (places in the table), with its match
FirstIntent(found, ns) ==
    IF ns = {} THEN [intent |-> "unknown", m |-> NoMatch]
    ELSE [intent |-> IntentOrder[Least(ns)], m |-> found[Least(ns)]]

\* _detect with line 384 returning "search_product" for a text no pattern matches
DetectOrSearch(text) ==
    Let([n \in DOMAIN IntentOrder |-> Search(INTENT_PATTERNS[IntentOrder[n]], text)],
        LAMBDA found :
            Let(FirstIntent(found, {n \in DOMAIN found : found[n].ok}), LAMBDA d :
                IF d.intent = "unknown" THEN [d EXCEPT !.intent = "search_product"] ELSE d))

_detect(text) ==
    Let([n \in DOMAIN IntentOrder |-> Search(INTENT_PATTERNS[IntentOrder[n]], text)],
        LAMBDA found : FirstIntent(found, {n \in DOMAIN found : found[n].ok}))

(***************************************************************************)
(* Exceptions: an operation that can raise yields Raised instead of Ok(v)  *)
(***************************************************************************)
Ok(v)  == [raised |-> FALSE, v |-> v]
Raised == [raised |-> TRUE]

(***************************************************************************)
(* _ner_pass.  nlp: whether a tagger is loaded; ner: what the tagger does, *)
(* [kind |-> "raise"] or [kind |-> "ents", ents |-> <<[label, text], ...>>]*)
(***************************************************************************)
MoneyJunkRe == NotCls(Digits \cup {".", ",", "k", "m"})        \* [^\d.,km]

NerEnt(slots0, ent) ==
    Let(slots0, LAMBDA slots :
        IF ent.label = "PRODUCT" /\ ~Has(slots, "product")
        THEN Put(slots, "product", Strip(ent.text))
        ELSE IF ent.label = "ORG" /\ ~Has(slots, "brand")
        THEN Put(slots, "brand", Strip(ent.text))
        ELSE IF ent.label = "MONEY"
        THEN Let(_to_float(Some(Sub(MoneyJunkRe, "", ent.text))), LAMBDA val :
                 IF IsSome(val) /\ Val(val) # 0 /\ ~Has(slots, "price_max")
                 THEN Put(slots, "price_max", Val(val))
                 ELSE slots)
        ELSE slots)

RECURSIVE NerEnts(_, _, _)
NerEnts(slots, ents, n) ==
    IF n > Len(ents) THEN slots ELSE NerEnts(NerEnt(slots, ents[n]), ents, n + 1)

\* the body of the try block: the tagger call may raise
NerBody(ner, slots) ==
    IF ner.kind = "raise" THEN Raised ELSE Ok(NerEnts(slots, ner.ents, 1))

\* try: ... except Exception: pass
_ner_pass(nlp, ner, slots) ==
    IF ~nlp THEN Ok(slots)
    ELSE Let(NerBody(ner, slots), LAMBDA r : IF r.raised THEN Ok(slots) ELSE r)

(***************************************************************************)
(* The texts drawn (Optional[str]: None is a null text)                    *)
(***************************************************************************)
\* s repeated n times, by halves
RECURSIVE Repeat(_, _)
Repeat(s, n) ==
    IF n = 0 THEN ""
    ELSE IF n % 2 = 1 THEN s \o Repeat(s, n - 1)
    ELSE Let(Repeat(s, n \div 2), LAMBDA h : h \o h)

\* a text longer than _MAX_TEXT_LEN whose first _MAX_TEXT_LEN characters end in blanks
LongText == Repeat("!", _MAX_TEXT_LEN - 2) \o "  find"

Texts ==
    {None, Some(""), Some("hello"), Some("asdkjasd"),
     Some("find Nike shoes under $100"),
     Some("find shoes between 50 and 50"),
     Some("add 2 packs of milo to cart"),
     Some("tea over 20"),
     Some("add 2 packs of Milo"),
     Some("add 0 packs of milo to cart"),
     Some("add a pair of shoes"),
     Some("add a pair of shoes to cart"),
     Some("add 3 bottles of cocks"),
     Some("add dozen pepsi to my basket"),
     Some("show cart"),
     Some("show my cart"),
     Some("view cart"),
     Some("find shoes under Rs. 500"),
     Some("find tea under usd 50"),
     Some("find tea from lKr 5 to £9"),
     Some("  <Script>find tea\f@HERE</script> "),
     Some("~~~~hello @Everyone"),
     Some(LongText),
     Some("find adidas shoes nike"),
     Some("find tea between 9 and 5 under 3 over 7"),
     Some("find tea under 3 over 7"),
     Some("add milk to cart"),
     Some("find sandals")}

\* every text some specification draws
AllTexts == Texts

(***************************************************************************)
(* process_query, lines 413-517: everything before the clarifier           *)
(***************************************************************************)
\* lines 426-434: colour, size and brand, each scanned over the whole text
ExtractAttr(st0, text, re, slot) ==
    Let(<<st0, Search(re, text)>>, LAMBDA a :
        IF a[2].ok
        THEN Let(Lower(Val(Group(text, a[2], "1"))), LAMBDA v :
                 Log(SetSlot(a[1], slot, v), Observation("Extracted " \o slot, v)))
        ELSE a[1])

\* a or b, for two Optional[str] groups
OrElse(a, b) == IF IsSome(a) /\ Val(a) # "" THEN a ELSE b
Truthy(o)    == IsSome(o) /\ Val(o) # ""

\* slots[k] = v and one observation of it, when v (an Optional) is not None
SetIfSome(st, k, v, what) ==
    IF IsSome(v) THEN Log(SetSlot(st, k, Val(v)), Observation(what, Val(v))) ELSE st

\* slots["currency"] = cur when cur (an Optional[str]) is neither None nor empty
SetCurrency(st, cur) ==
    IF Truthy(cur) THEN SetSlot(st, "currency", Val(cur)) ELSE st

\* lines 438-447
ExtractBetween(st0, text) ==
    Let(<<st0, Search(PRICE_BETWEEN_RE, text)>>, LAMBDA z :
        IF ~z[2].ok THEN z[1]
        ELSE Let([mn  |-> _to_float(Group(text, z[2], "min")),
                  mx  |-> _to_float(Group(text, z[2], "max")),
                  cur |-> OrElse(Group(text, z[2], "cur1"), Group(text, z[2], "cur2"))],
                 LAMBDA g :
                 Let(SetIfSome(z[1], "price_min", g.mn, "Extracted min price"), LAMBDA a :
                 Let(SetIfSome(a, "price_max", g.mx, "Extracted max price"), LAMBDA b :
                     SetCurrency(b, g.cur)))))

\* a variant of ExtractBound that sets the slot whether or not it is set already
ExtractBoundAlways(st0, text, re, slot, what) ==
    Let(<<st0, Search(re, text)>>, LAMBDA z :
        IF z[2].ok
        THEN Let(_to_float(Group(text, z[2], "val")), LAMBDA val :
                 IF IsSome(val)
                 THEN Let(SetIfSome(z[1], slot, val, what), LAMBDA a :
                          SetCurrency(a, Group(text, z[2], "cur")))
                 ELSE z[1])
        ELSE z[1])

\* lines 449-454 (slot = price_max) and 456-461 (slot = price_min)
ExtractBound(st0, text, re, slot, what) ==
    Let(<<st0, Search(re, text)>>, LAMBDA z :
        IF z[2].ok /\ ~Has(z[1].slots, slot)
        THEN Let(_to_float(Group(text, z[2], "val")), LAMBDA val :
                 IF IsSome(val)
                 THEN Let(SetIfSome(z[1], slot, val, what), LAMBDA a :
                          SetCurrency(a, Group(text, z[2], "cur")))
                 ELSE z[1])
        ELSE z[1])

\* a variant of InlineGroup that leaves a slot the whole-text scan has set
InlineGroupUnlessSet(st0, text, m, how, g, k) ==
    Let(<<st0, Group(text, m, g)>>, LAMBDA z :
        IF Has(z[1].slots, k) \/ ~Truthy(z[2]) THEN z[1]
        ELSE IF how = "float"
        THEN Let(_to_float(z[2]), LAMBDA v :
                 IF IsSome(v) THEN SetSlot(z[1], k, Val(v)) ELSE z[1])
        ELSE IF how = "lower" THEN SetSlot(z[1], k, Lower(Val(z[2])))
        ELSE SetSlot(z[1], k, Val(z[2])))

\* lines 463-488, one group of the intent's own match: slot k is set from group g when
\* the group is non-empty (how: lower-cased, as written, or as a float)
InlineGroup(st0, text, m, how, g, k) ==
    Let(<<st0, Group(text, m, g)>>, LAMBDA z :
        IF how = "float"
        THEN Let(_to_float(z[2]), LAMBDA v :
                 IF IsSome(v) THEN SetSlot(z[1], k, Val(v)) ELSE z[1])
        ELSE IF ~Truthy(z[2]) THEN z[1]
        ELSE IF how = "lower" THEN SetSlot(z[1], k, Lower(Val(z[2])))
        ELSE SetSlot(z[1], k, Val(z[2])))

\* the groups read after the quantity, in the order of lines 471-482
InlineGroups ==
    << <<"float", "price_max", "price_max">>, <<"float", "price_min", "price_min">>,
       <<"raw", "cur1", "currency">>, <<"raw", "cur2", "currency">>,
       <<"lower", "color", "color">>, <<"lower", "size", "size">>,
       <<"lower", "brand", "brand">> >>

RECURSIVE InlineFrom(_, _, _, _)
InlineFrom(st, text, m, n) ==
    IF n > Len(InlineGroups) THEN st
    ELSE InlineFrom(InlineGroup(st, text, m, InlineGroups[n][1], InlineGroups[n][2],
                                InlineGroups[n][3]),
                    text, m, n + 1)

\* lines 465-469: the quantity and the unit of an add_to_cart match
Quantity(st0, text, intent, m) ==
    IF intent # "add_to_cart" THEN st0
    ELSE Let(<<st0, _to_int(Group(text, m, "qty_num"))>>, LAMBDA z :
             InlineGroup(SetIfSome(z[1], "qty", z[2], "Quantity"), text, m, "lower", "uom", "uom"))

\* lines 484-488
Product(st0, text, m) ==
    Let(<<st0, Group(text, m, "product")>>, LAMBDA z :
        IF Truthy(z[2])
        THEN Let(_strip_price_phrases(_normalize_product(Val(z[2]))), LAMBDA p :
                 Log(SetSlot(z[1], "product", p), Observation("Product identified", p)))
        ELSE z[1])

\* lines 463-488: the groups of the intent's own match
IntentSpecific(st, text, intent, m) ==
    IF ~m.ok THEN st
    ELSE Product(
           InlineFrom(
             Quantity(Log(st, Reasoning("Step 5: Intent-specific processing - extracting context")),
                      text, intent, m),
             text, m, 1),
           text, m)

\* lines 493-497
InferCategoryStep(st0) ==
    Let(st0, LAMBDA st :
        IF ~Has(st.slots, "product") THEN st
        ELSE Let(_infer_category(st.slots["product"]), LAMBDA cat :
                 SetIfSome(Log(st, Reasoning("Step 7: Category inference - mapping product to category")),
                           "category", cat, "Inferred category")))

\* lines 501-503 and 552-554
NormalizeCurrency(slots0) ==
    Let(<<slots0, _currency_code(slots0["currency"])>>, LAMBDA z :
        IF IsSome(z[2]) THEN Put(z[1], "currency", CURRENCY_SYMBOL_FOR[Val(z[2])]) ELSE z[1])

\* lines 499-504
CurrencyStep(st0) ==
    Let(st0, LAMBDA st :
        IF ~Has(st.slots, "currency") THEN st
        ELSE Let(Log(st, Reasoning("Step 8: Currency normalization - standardizing currency format")),
                 LAMBDA s0 :
                 IF IsSome(_currency_code(s0.slots["currency"]))
                 THEN Let(NormalizeCurrency(s0.slots), LAMBDA sl :
                          Log([s0 EXCEPT !.slots = sl], Observation("Normalized currency", sl["currency"])))
                 ELSE s0))

\* lines 506-507
PriceLimitAlias(slots0) ==
    Let(slots0, LAMBDA slots :
        IF Has(slots, "price_max") /\ ~Has(slots, "price_min")
        THEN Put(slots, "price_limit", slots["price_max"])
        ELSE slots)

\* lines 420-434: colour, size and brand
Attributes(st, text) ==
    ExtractAttr(ExtractAttr(ExtractAttr(st, text, COLOR_RE, "color"), text, SIZE_RE, "size"),
                text, BRAND_RE, "brand")

\* lines 436-461: the price range, then the upper and the lower bound
Prices(st, text) ==
    ExtractBound(
      ExtractBound(
        ExtractBetween(Log(st, Reasoning("Step 4: Price analysis - detecting budget constraints")),
                       text),
        text, PRICE_UNDER_RE, "price_max", "Extracted max price"),
      text, PRICE_OVER_RE, "price_min", "Extracted min price")

\* lines 413-490 for the cleaned text, up to the tagger's pass
BeforeNerText(text, d) ==
    Let(Log(IntentSpecific(
              Prices(
                Attributes(
                  [slots |-> Put(EmptyDict, "raw", text),
                   log   |-> <<Reasoning("Step 1: Perceiving input - sanitizing and normalizing text"),
                               Observation("Cleaned text", text),
                               Reasoning("Step 2: Initial analysis - detecting intent patterns"),
                               Observation("Pattern matching found: intent", d.intent),
                               Reasoning("Step 3: Entity extraction - identifying attributes from text")>>],
                  text),
                text),
              text, d.intent, d.m),
            Reasoning("Step 6: NER enrichment - using spaCy for entity recognition")),
        LAMBDA a : [text |-> text, intent |-> d.intent, slots |-> a.slots, log |-> a.log])

\* lines 413-490, up to the tagger's pass; input: Optional[str]
BeforeNer(input) ==
    Let(_fix_terms(_sanitize(input)), LAMBDA text :
        Let(_detect(text), LAMBDA d : BeforeNerText(text, d)))

\* BeforeNer of the texts the specifications draw, computed once
BeforeNerOf == [t \in AllTexts |-> BeforeNer(t)]

\* lines 413-517.  The result: whether the call raised, the cleaned text, the matcher's
\* intent, the slots and the entries logged, in order
PatternStage(input, nlp, ner) ==
    Let(IF input \in AllTexts THEN BeforeNerOf[input] ELSE BeforeNer(input), LAMBDA a :
    Let(_ner_pass(nlp, ner, a.slots), LAMBDA n :
    Let(Log(Log([CurrencyStep(InferCategoryStep([slots |-> IF n.raised THEN a.slots ELSE n.v,
                                                   log   |-> a.log]))
                   EXCEPT !.slots = PriceLimitAlias(@)],
                Reasoning("Step 10: LLM Agent activation - applying language model intelligence")),
            Decision("Activating LLM for deep understanding", 90,
                     "Agent mode enabled for all queries")),
        LAMBDA b : [raised |-> n.raised, text |-> a.text, intent |-> a.intent,
                    slots |-> b.slots, log |-> b.log])))

(***************************************************************************)
(* The clarifier.  What the generation model does is drawn from a set:     *)
(*   [kind |-> "raise"]                     the call raises                *)
(*   [kind |-> "text", json |-> None]       text json.loads rejects        *)
(*   [kind |-> "text", json |-> Some(d)]    text that repairs and parses   *)
(*                                          to the object d                *)
(* A JSON value is tagged with its Python type.                            *)
(***************************************************************************)
JStr(x)  == [t |-> "str", v |-> x]
JNum(x)  == [t |-> "num", v |-> x]         \* x counts hundredths
JBool(x) == [t |-> "bool", v |-> x]
JNull    == [t |-> "null"]
JList    == [t |-> "list"]

IsStr(d, k) == Has(d, k) /\ d[k].t = "str"

\* lines 335-341, for one key: a string price becomes a float, or float() raises
PriceFromStr(result, key) ==
    IF IsStr(result, key)
    THEN Let(RemoveChar(Lower(result[key].v), ","), LAMBDA val_str :
         Let(IF EndsWith(val_str, "k") THEN ParseFloat(DropLast(val_str))
             ELSE ParseFloat(val_str), LAMBDA f :
             IF ~IsSome(f) THEN Raised
             ELSE Ok(Put(result, key,
                         JNum(IF EndsWith(val_str, "k") THEN Val(f) * 1000 ELSE Val(f))))))
    ELSE Ok(result)

\* lines 314-347: the body of the try block
ClarifyBody(resp) ==
    IF resp.kind = "raise" THEN Raised
    ELSE IF ~IsSome(resp.json) THEN Raised
    ELSE Let(PriceFromStr(Val(resp.json), "price_min"), LAMBDA r1 :
             IF r1.raised THEN Raised ELSE PriceFromStr(r1.v, "price_max"))

\* _clarify_with_llm with the except clause taken away: what the body raises propagates
ClarifyNoCatch(pipe, resp) ==
    IF ~IsSome(pipe) THEN Ok(EmptyDict) ELSE ClarifyBody(resp)

\* _clarify_with_llm with an except clause that answers with a guess instead of {}
ClarifyGuess(pipe, resp) ==
    IF ~IsSome(pipe) THEN Ok(EmptyDict)
    ELSE Let(ClarifyBody(resp), LAMBDA r :
             IF r.raised THEN Ok([intent |-> JStr("search_product")]) ELSE r)

\* pipe: Optional handle, as returned by _get_llm; except Exception: return {}
_clarify_with_llm(pipe, resp) ==
    IF ~IsSome(pipe) THEN Ok(EmptyDict)
    ELSE Let(ClarifyBody(resp), LAMBDA r : IF r.raised THEN Ok(EmptyDict) ELSE r)

\* float(str(v).replace(",", "")) for a JSON value v
FloatOfJson(v) ==
    IF v.t = "num" THEN Some(v.v)
    ELSE IF v.t = "str" THEN ParseFloat(RemoveChar(v.v, ","))
    ELSE None

\* s.strip() and friends exist on strings only
StrStrip(v) == IF v.t = "str" THEN Ok(Strip(v.v)) ELSE Raised
StrLower(v) == IF v.t = "str" THEN Ok(Lower(Strip(v.v))) ELSE Raised

\* one of the string fields: kept when `guard` holds, through `conv`
KeepStr(acc0, k, guard, conv) ==
    Let(acc0, LAMBDA acc :
        IF acc.raised \/ ~guard THEN acc
        ELSE Let(conv, LAMBDA cv : IF cv.raised THEN Raised ELSE Ok(Put(acc.v, k, cv.v))))

KeepPrice(acc0, d, k) ==
    Let(acc0, LAMBDA acc :
        IF acc.raised \/ ~Has(d, k) THEN acc
        ELSE Let(FloatOfJson(d[k]), LAMBDA f :
                 IF IsSome(f) THEN Ok(Put(acc.v, k, Val(f))) ELSE acc))

\* the field k of d, through conv; reading a field that is absent raises
Field(d, k, conv(_)) == IF Has(d, k) THEN conv(d[k]) ELSE Raised

\* lines 358-361: brand and product
ValidNames(d) ==
    KeepStr(KeepStr(Ok(EmptyDict), "brand",
                    IsStr(d, "brand") /\ 0 < Len(d["brand"].v) /\ Len(d["brand"].v) <= 50,
                    Field(d, "brand", StrStrip)),
            "product",
            IsStr(d, "product") /\ 0 < Len(d["product"].v) /\ Len(d["product"].v) <= 120,
            Field(d, "product", StrStrip))

\* lines 362-367: the three prices
ValidPrices(acc, d) ==
    KeepPrice(KeepPrice(KeepPrice(acc, d, "price_limit"), d, "price_max"), d, "price_min")

\* lines 368-372: intent, category and currency
ValidLabels(acc, d) ==
    KeepStr(KeepStr(KeepStr(acc, "intent", IsStr(d, "intent") /\ d["intent"].v # "",
                            Field(d, "intent", StrLower)),
                    "category", IsStr(d, "category") /\ d["category"].v # "",
                    Field(d, "category", StrLower)),
            "currency", IsStr(d, "currency") /\ d["currency"].v # "",
            Field(d, "currency", StrStrip))

_validate_structured(d) == ValidLabels(ValidPrices(ValidNames(d), d), d)

(***************************************************************************)
(* process_query, lines 519-559: the clarifier's fields are merged         *)
(***************************************************************************)
USE_LLM == TRUE
LLM_MODEL_NAME == "google/flan-t5-base"

intent_map == [buy |-> "search_product", purchase |-> "search_product", order |-> "add_to_cart"]
MapIntent(i) == IF i \in DOMAIN intent_map THEN intent_map[i] ELSE i

MergeKeys == <<"product", "brand", "category", "price_min", "price_max", "currency">>

\* lines 544-549, for one key
MergeKey(st0, clarified, k) ==
    Let(st0, LAMBDA st :
        IF ~Has(clarified, k) THEN st
        ELSE IF ~Has(st.slots, k) \/ st.slots[k] # clarified[k]
        THEN Log(SetSlot(st, k, clarified[k]), Observation("LLM corrected " \o k, clarified[k]))
        ELSE SetSlot(st, k, clarified[k]))

\* lines 544-549, for the keys from the n-th on
RECURSIVE MergeFrom(_, _, _)
MergeFrom(st, clarified, n) ==
    IF n > Len(MergeKeys) THEN st
    ELSE MergeFrom(MergeKey(st, clarified, MergeKeys[n]), clarified, n + 1)

\* lines 551-559
AfterMerge(slots) ==
    Let(IF Has(slots, "currency") THEN NormalizeCurrency(slots) ELSE slots, LAMBDA s1 :
    Let(IF ~Has(s1, "category") /\ Has(s1, "product")
        THEN _infer_category(s1["product"]) ELSE None, LAMBDA cat :
        IF IsSome(cat) THEN Put(s1, "category", Val(cat)) ELSE s1))

\* a variant that adopts the clarifier's intent whatever the matcher found
MergeIntentAlways(intent, clarified) ==
    IF ~Has(clarified, "intent")
    THEN [clarified |-> clarified, intent |-> intent, log |-> << >>]
    ELSE Let(MapIntent(Lower(clarified["intent"])), LAMBDA normalized_intent :
             [clarified |-> Put(clarified, "intent", normalized_intent),
              intent    |-> normalized_intent,
              log       |-> <<Decision("Intent resolved to: " \o normalized_intent, 80,
                                       "LLM understanding")>>])

\* lines 527-541: the clarifier's intent is normalized, and adopted when the matcher
\* found none.  The result: clarified, the intent and the entries logged
MergeIntent(intent, clarified) ==
    IF ~Has(clarified, "intent")
    THEN [clarified |-> clarified, intent |-> intent, log |-> << >>]
    ELSE Let(MapIntent(Lower(clarified["intent"])), LAMBDA normalized_intent :
             [clarified |-> Put(clarified, "intent", normalized_intent),
              intent    |-> IF intent = "unknown" THEN normalized_intent ELSE intent,
              log       |-> IF intent = "unknown"
                            THEN <<Decision("Intent resolved to: " \o normalized_intent, 80,
                                            "LLM understanding")>>
                            ELSE << >>])

\* intent, slots: what the stages before left; clarified: _validate_structured's result.
\* The result: llm_used, the intent, the slots, clarified (its intent normalized) and
\* the entries logged.
Merge(intent, slots, clarified) ==
    IF ~USE_LLM \/ clarified = EmptyDict
    THEN [llm_used |-> FALSE, intent |-> intent, slots |-> slots,
          clarified |-> clarified, log |-> << >>]
    ELSE Let(MergeIntent(intent, clarified), LAMBDA i :
         Let(MergeFrom([slots |-> slots,
                        log   |-> <<Observation("LLM extracted", DOMAIN clarified)>> \o i.log],
                       i.clarified, 1), LAMBDA s2 :
             [llm_used |-> TRUE, intent |-> i.intent, slots |-> AfterMerge(s2.slots),
              clarified |-> i.clarified, log |-> s2.log]))

(***************************************************************************)
(* process_query, lines 561-649: diagnostics, collapse, reply, confidence  *)
(***************************************************************************)
\* lines 563-568; llm_error is the module's _llm_error, an Optional[str]
Diagnostics(slots, llm_used, clarified, llm_error) ==
    IF llm_used
    THEN Put(Put(Put(slots, "__llm_used", TRUE), "__llm_model", LLM_MODEL_NAME),
             "__llm_raw", clarified)
    ELSE IF USE_LLM /\ Truthy(llm_error) THEN Put(slots, "__llm_error", Val(llm_error))
    ELSE slots

\* lines 570-571 taken away
CollapseNever(slots) == slots

\* lines 570-571
Collapse(slots) ==
    IF Has(slots, "price_min") /\ Has(slots, "price_max") /\ slots["price_min"] = slots["price_max"]
    THEN Del(slots, "price_min")
    ELSE slots

Get(d, k, default) == IF Has(d, k) THEN d[k] ELSE default

\* lines 580-589: the parts listed after the product, in order
Bits(slots) ==
    (IF Has(slots, "brand") THEN << <<slots["brand"]>> >> ELSE << >>) \o
    (IF Has(slots, "color") THEN << <<slots["color"]>> >> ELSE << >>) \o
    (IF Has(slots, "size")  THEN << <<slots["size"]>> >>  ELSE << >>) \o
    (IF Has(slots, "price_min")
     THEN << <<"over ", Get(slots, "currency", "$"), slots["price_min"]>> >> ELSE << >>) \o
    (IF Has(slots, "price_max")
     THEN << <<"under ", Get(slots, "currency", "$"), slots["price_max"]>> >> ELSE << >>)

\* lines 575-604: the reply, as the template's text and the values filled in
Reply(intent, slots) ==
    CASE intent = "greeting" ->
           <<"Hi! Try: 'find Nike shoes under $100', 'add 2 packs of Milo', 'show cart', or 'checkout'.">>
      [] intent = "search_product" ->
           <<"Searching for ", Get(slots, "product", "the item"), Bits(slots)>>
      [] intent = "add_to_cart" ->
           <<"Adding ", Get(slots, "qty", 1), Get(slots, "uom", ""), " of ",
             Get(slots, "product", "item"), " to your cart">>
      [] intent = "remove_from_cart" ->
           <<"Removing ", Get(slots, "product", "that item"), " from your cart">>
      [] intent = "show_cart" -> <<"Here's what's in your cart">>
      [] intent = "checkout" -> <<"Proceeding to checkout">>
      [] OTHER -> <<"Sorry, I didn't understand that.">>

KnownIntents == {"add_to_cart", "remove_from_cart", "search_product", "show_cart",
                 "checkout", "greeting"}

\* lines 611-615 with lines 614-615, the floor, taken away
ConfidenceNoFloor(intent, llm_used) == IF intent \in KnownIntents THEN 90 ELSE 30

\* lines 611-615; 0.9, 0.8 and 0.3 in hundredths
Confidence(intent, llm_used) ==
    LET confidence == IF intent \in KnownIntents THEN 90 ELSE 30
    IN  IF llm_used /\ confidence < 80 THEN 80 ELSE confidence

\* the entries lines 561-621 log
FinishLog(intent, slots, llm_used) ==
    <<Reasoning("Step 11: Confidence evaluation - assessing understanding quality"),
      Reasoning("Step 12: Response generation - creating user-friendly reply")>> \o
    (IF intent \in KnownIntents THEN << >>
     ELSE <<Decision("Requesting clarification", 30, "Unable to determine clear intent")>>) \o
    <<Decision("Final confidence", Confidence(intent, llm_used),
               <<IF llm_used THEN "LLM-enhanced" ELSE "Pattern-based", Cardinality(DOMAIN slots)>>)>>

\* the slots as returned: lines 563-571
FinalSlots(slots, llm_used, clarified, llm_error) ==
    Collapse(Diagnostics(slots, llm_used, clarified, llm_error))

OfKind(entries, kind) == SelectSeq(entries, LAMBDA e : e.kind = kind)

\* lines 630-649; trace: the entries of the call's AgentMemory when get_trace reads it
Result(intent, slots, llm_used, user_id, locale, trace) ==
    [intent     |-> intent,
     confidence |-> Confidence(intent, llm_used),
     slots      |-> slots,
     reply      |-> Reply(intent, slots),
     action     |-> [type |-> intent, params |-> slots],
     user_id    |-> user_id,
     locale     |-> IF Truthy(locale) THEN Val(locale) ELSE "en-US",
     agent_metadata |->
        [is_agent        |-> TRUE,
         agent_type      |-> "query_understanding_agent",
         reasoning_trace |-> OfKind(trace, "reasoning"),
         decisions_made  |-> OfKind(trace, "decision"),
         observations    |-> OfKind(trace, "observation"),
         llm_powered     |-> llm_used,
         model           |-> IF llm_used THEN LLM_MODEL_NAME ELSE "rule-based"]]

(***************************************************************************)
(* The service: threads of the server run process_query (main.py, parse    *)
(* and test_query_process are plain def endpoints, which the framework     *)
(* runs on a thread pool) over the module's globals.                       *)
(***************************************************************************)
VARIABLES
    _nlp,              \* whether the spaCy tagger was loaded at import (lines 84-91)
    _llm_pipe,         \* Optional handle of the generation pipeline (line 96)
    _llm_error,        \* Optional[str] (line 97)
    _current_memory,   \* Optional id of the current AgentMemory (line 67)
    mem,               \* the AgentMemory objects alive: id -> the entries appended
    built,             \* how many times pipeline(...) has returned a handle
    ncalls,            \* how many calls of process_query were started
    call               \* per thread: the frame of its process_query call

vars == <<_nlp, _llm_pipe, _llm_error, _current_memory, mem, built, ncalls, call>>

Threads    == {1, 2}
SeqThreads == {1}
MaxCalls   == 2

NoNer  == [kind |-> "none"]
NoGen  == [kind |-> "none"]
NoResp == [ner |-> NoNer, init |-> "none", gen |-> NoGen]
NoInput == [text |-> None, user_id |-> None, locale |-> None]

IdleCall ==
    [pc |-> "idle", cid |-> 0, input |-> NoInput, memory |-> 0, own |-> << >>,
     text |-> "", intent |-> "", slots |-> EmptyDict, pipe |-> None,
     clarified |-> EmptyDict, llm_used |-> FALSE, resp |-> NoResp, result |-> None]

\* an entry as it sits in an AgentMemory; `by` records the call that appended it
Stamp(entries, cid) ==
    [n \in DOMAIN entries |-> [by |-> cid, kind |-> entries[n].kind, msg |-> entries[n].msg]]

\* the objects still referenced, by the global or by a frame
Live(current, frames) ==
    (IF IsSome(current) THEN {Val(current)} ELSE {}) \cup
    ({frames[c].memory : c \in DOMAIN frames} \ {0})
Collect(m, current, frames) ==
    [i \in Live(current, frames) \cap DOMAIN m |-> m[i]]

TypeOK ==
    /\ _nlp \in BOOLEAN
    /\ built \in 0..MaxCalls
    /\ ncalls \in 0..MaxCalls
    /\ \A c \in Threads : call[c].pc \in {"idle", "reset", "getmem", "patterns", "llm", "init",
                                          "generate", "merge", "finish", "done", "raised"}

Init ==
    /\ _nlp \in BOOLEAN
    /\ _llm_pipe = None
    /\ _llm_error = None
    /\ _current_memory = None
    /\ mem = << >>
    /\ built = 0
    /\ ncalls = 0
    /\ call = [c \in Threads |-> IdleCall]

\* main.py lines 45 and 54: a request arrives and process_query is entered
Call(c, inputs) ==
    /\ call[c].pc = "idle"
    /\ ncalls < MaxCalls
    /\ \E i \in inputs :
          call' = [call EXCEPT ![c] = [IdleCall EXCEPT !.pc = "reset", !.cid = ncalls + 1,
                                                       !.input = i]]
    /\ ncalls' = ncalls + 1
    /\ UNCHANGED <<_nlp, _llm_pipe, _llm_error, _current_memory, mem, built>>

\* line 405, _reset_memory: a new AgentMemory becomes the current one
ResetMemory(c) ==
    /\ call[c].pc = "reset"
    /\ LET id == call[c].cid
       IN  /\ _current_memory' = Some(id)
           /\ mem' = Collect((id :> << >>) @@ mem, Some(id), call)
    /\ call' = [call EXCEPT ![c].pc = "getmem"]
    /\ UNCHANGED <<_nlp, _llm_pipe, _llm_error, built, ncalls>>

\* line 406, _get_memory: the current AgentMemory, created when there is none
GetMemory(c) ==
    /\ call[c].pc = "getmem"
    /\ LET id == IF IsSome(_current_memory) THEN Val(_current_memory) ELSE call[c].cid
       IN  /\ _current_memory' = Some(id)
           /\ mem' = IF id \in DOMAIN mem THEN mem ELSE (id :> << >>) @@ mem
           /\ call' = [call EXCEPT ![c].pc = "patterns", ![c].memory = id]
    /\ UNCHANGED <<_nlp, _llm_pipe, _llm_error, built, ncalls>>

\* memory.add_reasoning / add_observation / add_decision for a batch of entries
AppendTo(m, frame, entries) ==
    [m EXCEPT ![frame.memory] = @ \o Stamp(entries, frame.cid)]

\* lines 413-517; the tagger's behaviour is drawn when a tagger is loaded
Patterns(c, ners) ==
    /\ call[c].pc = "patterns"
    /\ \E ner \in (IF _nlp THEN ners ELSE {NoNer}) :
        \E f \in {call[c]} :
        \E r \in {PatternStage(f.input.text, _nlp, ner)} :
              IF r.raised
              THEN /\ call' = [call EXCEPT ![c].pc = "raised"]
                   /\ mem' = mem
              ELSE /\ call' = [call EXCEPT ![c].pc = "llm", ![c].text = r.text,
                                           ![c].intent = r.intent, ![c].slots = r.slots,
                                           ![c].own = @ \o r.log, ![c].resp.ner = ner]
                   /\ mem' = AppendTo(mem, f, r.log)
    /\ UNCHANGED <<_nlp, _llm_pipe, _llm_error, _current_memory, built, ncalls>>

\* lines 519-521 and 284, 99-105: _get_llm returns the cached handle when there is one
GetLlm(c) ==
    /\ call[c].pc = "llm"
    /\ call' = IF ~USE_LLM THEN [call EXCEPT ![c].pc = "finish"]
               ELSE IF IsSome(_llm_pipe)
               THEN [call EXCEPT ![c].pc = "generate", ![c].pipe = _llm_pipe,
                                 ![c].resp.init = "cached"]
               ELSE [call EXCEPT ![c].pc = "init"]
    /\ UNCHANGED <<_nlp, _llm_pipe, _llm_error, _current_memory, mem, built, ncalls>>

\* lines 106-112: pipeline(...) returns a handle, which is stored, or raises
LlmInit(c) ==
    /\ call[c].pc = "init"
    /\ \/ /\ built' = built + 1
          /\ _llm_pipe' = Some(built + 1)
          /\ call' = [call EXCEPT ![c].pc = "generate", ![c].pipe = Some(built + 1),
                                  ![c].resp.init = "ok"]
          /\ UNCHANGED _llm_error
       \/ /\ _llm_error' = Some("LLM init failed")
          /\ call' = [call EXCEPT ![c].pc = "generate", ![c].pipe = None,
                                  ![c].resp.init = "fail"]
          /\ UNCHANGED <<_llm_pipe, built>>
    /\ UNCHANGED <<_nlp, _current_memory, mem, ncalls>>

\* lines 285-353 and 521: the model is run (when there is a handle), its output parsed
\* and validated
Generate(c, responses) ==
    /\ call[c].pc = "generate"
    /\ \E resp \in (IF IsSome(call[c].pipe) THEN responses ELSE {NoGen}) :
        \E r \in {_clarify_with_llm(call[c].pipe, resp)} :
        \E v \in {IF r.raised THEN Raised ELSE _validate_structured(r.v)} :
              call' = IF v.raised THEN [call EXCEPT ![c].pc = "raised"]
                      ELSE [call EXCEPT ![c].pc = "merge", ![c].clarified = v.v,
                                        ![c].resp.gen = resp]
    /\ UNCHANGED <<_nlp, _llm_pipe, _llm_error, _current_memory, mem, built, ncalls>>

\* lines 522-559
MergeStep(c) ==
    /\ call[c].pc = "merge"
    /\ \E f \in {call[c]} :
       \E m \in {Merge(f.intent, f.slots, f.clarified)} :
           /\ call' = [call EXCEPT ![c].pc = "finish", ![c].intent = m.intent,
                                   ![c].slots = m.slots, ![c].clarified = m.clarified,
                                   ![c].llm_used = m.llm_used, ![c].own = @ \o m.log]
           /\ mem' = AppendTo(mem, f, m.log)
    /\ UNCHANGED <<_nlp, _llm_pipe, _llm_error, _current_memory, built, ncalls>>

\* lines 561-649
Finish(c) ==
    /\ call[c].pc = "finish"
    /\ \E f \in {call[c]} :
       \E slots \in {FinalSlots(f.slots, f.llm_used, f.clarified, _llm_error)} :
       \E log \in {FinishLog(f.intent, slots, f.llm_used)} :
       \E m2 \in {AppendTo(mem, f, log)} :
           /\ mem' = m2
           /\ call' = [call EXCEPT
                 ![c].pc = "done", ![c].slots = slots, ![c].own = @ \o log,
                 ![c].result = Some(Result(f.intent, slots, f.llm_used, f.input.user_id,
                                           f.input.locale, m2[f.memory]))]
    /\ UNCHANGED <<_nlp, _llm_pipe, _llm_error, _current_memory, built, ncalls>>

\* main.py lines 46 and 55: the result is returned and the frame is gone
Return(c) ==
    /\ call[c].pc = "done"
    /\ call' = [call EXCEPT ![c] = IdleCall]
    /\ mem' = Collect(mem, _current_memory, call')
    /\ UNCHANGED <<_nlp, _llm_pipe, _llm_error, _current_memory, built, ncalls>>

(***************************************************************************)
(* The inputs drawn                                                        *)
(***************************************************************************)
Callers == {[user_id |-> None, locale |-> None],
            [user_id |-> Some("u1"), locale |-> Some("fr-FR")]}

Inputs == {[text |-> t, user_id |-> w.user_id, locale |-> w.locale] : t \in Texts, w \in Callers}

\* what a loaded tagger does
NerResponses ==
    {[kind |-> "raise"],
     [kind |-> "ents", ents |-> << >>],
     [kind |-> "ents", ents |-> <<[label |-> "ORG", text |-> " Acme "],
                                  [label |-> "MONEY", text |-> "$2.5K"],
                                  [label |-> "PRODUCT", text |-> "widget"]>>]}

Json(d) == [kind |-> "text", json |-> Some(d)]

\* what the generation model does
Responses ==
    {[kind |-> "raise"],
     [kind |-> "text", json |-> None],
     Json(EmptyDict),
     Json([intent |-> JStr("search_product"), product |-> JStr("gaming laptop"),
           brand |-> JStr("asus"), price_max |-> JStr("300k"), currency |-> JStr("LKR")]),
     Json([intent |-> JStr(" Browse ")]),
     Json([intent |-> JStr("buy"), product |-> JStr("sneakers")]),
     Json([intent |-> JStr("search_product"), price_max |-> JStr("cheap")]),
     Json([intent |-> JNum(500), brand |-> JBool(TRUE), product |-> JNull, price_min |-> JList,
           price_limit |-> JBool(FALSE), category |-> JNum(0), currency |-> JNull]),
     Json([price_max |-> JNum(20000)]),
     Json([brand |-> JStr("asus"), price_max |-> JStr("2m")]),
     Json([price_min |-> JNum(7000), price_max |-> JStr("70")]),
     Json([price_limit |-> JNum(9900)]),
     Json([price_min |-> JStr("-5"), price_max |-> JNum(-250), currency |-> JStr("Rs.")]),
     Json([intent |-> JStr("order"), category |-> JStr("Groceries"), currency |-> JStr("usd")])}

\* the inputs of the runs with two calls in flight at once
ConcInputs == {[text |-> Some("hello"), user_id |-> None, locale |-> None],
               [text |-> Some("asdkjasd"), user_id |-> Some("u1"), locale |-> None]}
ConcResponses == {[kind |-> "text", json |-> None],
                  Json([intent |-> JStr("buy"), product |-> JStr("sneakers")])}

(***************************************************************************)
(* Specifications                                                          *)
(***************************************************************************)
Step(c, inputs, ners, responses) ==
    \/ Call(c, inputs)
    \/ ResetMemory(c)
    \/ GetMemory(c)
    \/ Patterns(c, ners)
    \/ GetLlm(c)
    \/ LlmInit(c)
    \/ Generate(c, responses)
    \/ MergeStep(c)
    \/ Finish(c)
    \/ Return(c)

\* one request at a time, one after the other
Next == \E c \in SeqThreads : Step(c, Inputs, NerResponses, Responses)
Spec == Init /\ [][Next]_vars

\* requests served concurrently, interleaved at the accesses to the globals
NextConc == \E c \in Threads : Step(c, ConcInputs, NerResponses, ConcResponses)
SpecConc == Init /\ [][NextConc]_vars

(***************************************************************************)
(* Properties                                                              *)
(***************************************************************************)
\* the frames whose call has built its Result
Done == {c \in Threads : call[c].pc = "done"}
ResultOf(c) == Val(call[c].result)

\* the slots without the diagnostic keys of lines 563-568
DiagnosticKeys == {"__llm_used", "__llm_model", "__llm_raw", "__llm_error"}
NonDiagnostic(slots) == [k \in DOMAIN slots \ DiagnosticKeys |-> slots[k]]

\* what is compared of a Result: intent, confidence, reply and slots
Outcome(intent, slots, llm_used) ==
    [intent |-> intent, confidence |-> Confidence(intent, llm_used),
     reply |-> Reply(intent, slots), slots |-> slots]
OutcomeOf(c) ==
    [intent |-> ResultOf(c).intent, confidence |-> ResultOf(c).confidence,
     reply |-> ResultOf(c).reply, slots |-> ResultOf(c).slots]

\* process_query(input) when it is the first call of its process, the collaborators
\* answering as in resp: [ner, init, gen]
AloneAfter(p, resp) ==
    Let(_clarify_with_llm(IF resp.init = "fail" THEN None ELSE Some(1), resp.gen), LAMBDA r :
    Let(Merge(p.intent, p.slots, _validate_structured(r.v).v), LAMBDA m :
        Outcome(m.intent,
                FinalSlots(m.slots, m.llm_used, m.clarified,
                           IF resp.init = "fail" THEN Some("LLM init failed") ELSE None),
                m.llm_used)))
Alone(input, nlp, resp) ==
    Let(PatternStage(input.text, nlp, resp.ner), LAMBDA p : AloneAfter(p, resp))

\* process_query(input) with the clarifier switched off: lines 413-517, then 561-649
PatternOnly(input, nlp, ner) ==
    Let(PatternStage(input.text, nlp, ner), LAMBDA p :
        Outcome(p.intent, Collapse(p.slots), FALSE))

\* the clarifier of the frame f failed: no model, or the body of its try block raised
ClarifierFailed(f) == ~IsSome(f.pipe) \/ ClarifyBody(f.resp.gen).raised

\* C1: the clarifier merge only fills gaps: each of the slots product, brand, category,
\* price_min, price_max and currency that was set before the merge has the same value
\* after it.
MergeOnlyFillsGaps ==
    [][\A c \in Threads :
          (call[c].pc = "merge" /\ call'[c].pc = "finish") =>
              \A k \in Range(MergeKeys) :
                  Has(call[c].slots, k) =>
                      Has(call'[c].slots, k) /\ call'[c].slots[k] = call[c].slots[k]]_vars

\* C2: the intent of every returned Result, and its action.type, is one of the seven
\* values search_product, add_to_cart, remove_from_cart, show_cart, checkout, greeting,
\* unknown.
IntentInClosedSet ==
    \A c \in Done : /\ ResultOf(c).intent \in KnownIntents \cup {"unknown"}
                    /\ ResultOf(c).action.type \in KnownIntents \cup {"unknown"}

\* C3: under any interleaving of concurrent calls the model handle is constructed at most
\* once, and once the handle is set it is never replaced.
HandleBuiltOnce ==
    [][/\ built' <= 1
       /\ IsSome(_llm_pipe) => _llm_pipe' = _llm_pipe]_vars

\* C4: when calls interleave, the reasoning steps, observations and decisions of a call's
\* Result are exactly the entries that call produced, in order: none of another call,
\* none lost.
OwnTrace(c, kind) == OfKind(Stamp(call[c].own, call[c].cid), kind)
IndependentTraces ==
    \A c \in Done :
        /\ ResultOf(c).agent_metadata.reasoning_trace = OwnTrace(c, "reasoning")
        /\ ResultOf(c).agent_metadata.observations = OwnTrace(c, "observation")
        /\ ResultOf(c).agent_metadata.decisions_made = OwnTrace(c, "decision")

\* C5: no cross-request state: the intent, confidence, reply and slots of a call's Result
\* are those the same input and the same collaborator responses give in a process that
\* has served no call before.
NoCrossRequestState ==
    \A c \in Done : OutcomeOf(c) = Alone(call[c].input, _nlp, call[c].resp)

\* C6: process_query never raises: whatever the text and whatever the collaborators do,
\* no call ends in an exception, and a finished call holds a Result.
NeverRaises ==
    \A c \in Threads : /\ call[c].pc # "raised"
                       /\ call[c].pc = "done" => IsSome(call[c].result)

\* a call finished although its tagger and its generation model both raised
FinishedDespiteRaises ==
    \E c \in Done : call[c].resp.ner.kind = "raise" /\ call[c].resp.gen.kind = "raise"

\* C7: when the clarifier fails, the Result's intent, confidence, reply and non-diagnostic
\* slots are those of the pattern-only pipeline for the same text.
FailedClarifierContributesNothing ==
    \A c \in Done :
        ClarifierFailed(call[c]) =>
            [OutcomeOf(c) EXCEPT !.slots = NonDiagnostic(@)]
                = PatternOnly(call[c].input, _nlp, call[c].resp.ner)

\* a call finished with slots found by the patterns after its model's output failed to parse
FinishedAfterParseFailure ==
    \E c \in Done : /\ IsSome(call[c].pipe)
                    /\ call[c].resp.gen = [kind |-> "text", json |-> None]
                    /\ Has(ResultOf(c).slots, "price_max")

\* C8: whenever the clarifier's output fails to parse, the model being initialized, the
\* Result's slots hold the diagnostic key __llm_error.
ParseFailureRecorded ==
    \A c \in Done :
        (IsSome(call[c].pipe) /\ call[c].resp.gen = [kind |-> "text", json |-> None])
            => Has(ResultOf(c).slots, "__llm_error")

\* C9: the confidence is 0.9 exactly when the final intent is one of the six recognized
\* intents; otherwise it is 0.8 when the clarifier contributed a validated field and 0.3
\* when it contributed none.
ConfidenceRule ==
    \A c \in Done :
        ResultOf(c).confidence =
            IF ResultOf(c).intent \in KnownIntents THEN 90
            ELSE IF call[c].clarified # EmptyDict THEN 80 ELSE 30

\* a Result whose intent is not a recognized one and whose confidence is 0.8
FloorApplied ==
    \E c \in Done : ResultOf(c).intent \notin KnownIntents /\ ResultOf(c).confidence = 80

\* C10: in every returned Result, if price_max is present and price_min is absent then
\* price_limit is present and equal to price_max.
PriceLimitFollowsMax ==
    \A c \in Done :
        (Has(ResultOf(c).slots, "price_max") /\ ~Has(ResultOf(c).slots, "price_min"))
            => /\ Has(ResultOf(c).slots, "price_limit")
               /\ ResultOf(c).slots["price_limit"] = ResultOf(c).slots["price_max"]

\* both prices are in the slots, with equal values
EqualPrices(slots) ==
    Has(slots, "price_min") /\ Has(slots, "price_max") /\ slots["price_min"] = slots["price_max"]

\* C11: no returned Result has price_min and price_max present with equal values; when
\* both were set and equal before the Result was built, price_min is dropped and
\* price_max is kept unchanged.
CollapseOfEqualPrices ==
    [][\A c \in Threads :
          (call[c].pc = "finish" /\ call'[c].pc = "done") =>
              /\ ~EqualPrices(Val(call'[c].result).slots)
              /\ EqualPrices(call[c].slots) =>
                    /\ ~Has(Val(call'[c].result).slots, "price_min")
                    /\ Has(Val(call'[c].result).slots, "price_max")
                    /\ Val(call'[c].result).slots["price_max"] = call[c].slots["price_max"]]_vars

\* a Result built from equal prices the clarifier gave: price_max alone is left
CollapsedClarifierPrices ==
    \E c \in Done : /\ EqualPrices(call[c].clarified)
                    /\ Has(ResultOf(c).slots, "price_max")
                    /\ ~Has(ResultOf(c).slots, "price_min")

\* C12: in every returned Result the price_min and price_max slots, when present, are
\* non-negative numbers.
PricesNonNegative ==
    \A c \in Done : \A k \in {"price_min", "price_max"} :
        Has(ResultOf(c).slots, k) => ResultOf(c).slots[k] >= 0

\* C13: in every returned Result the qty slot, when present, is an integer greater than
\* or equal to 1.
QtyAtLeastOne ==
    \A c \in Done : Has(ResultOf(c).slots, "qty") => ResultOf(c).slots["qty"] >= 1

\* C14: in every returned Result the category slot, when present, is one of the
\* categories of the keyword table.
CategoryInTable ==
    \A c \in Done :
        Has(ResultOf(c).slots, "category") => ResultOf(c).slots["category"] \in Range(CategoryOrder)

\* the frames whose call has built its Result for the text t
DoneFor(t) == {c \in Done : call[c].input.text = Some(t)}
\* the slot k of the Result of c is v
SlotIs(c, k, v) == Has(ResultOf(c).slots, k) /\ ResultOf(c).slots[k] = v
\* the slot k of the Result of c is a text that contains kw, letter case aside
SlotHolds(c, k, kw) == Has(ResultOf(c).slots, k) /\ Contains(Lower(ResultOf(c).slots[k]), kw)

\* C15: "find Nike shoes under $100" yields intent search_product, brand "nike", a product
\* containing "shoes", price_max 100.0, currency "$", category "shoes" and confidence 0.9.
NikeShoesScenario ==
    \A c \in DoneFor("find Nike shoes under $100") :
        /\ ResultOf(c).intent = "search_product"
        /\ SlotIs(c, "brand", "nike")
        /\ SlotHolds(c, "product", "shoes")
        /\ SlotIs(c, "price_max", 10000)
        /\ SlotIs(c, "currency", "$")
        /\ SlotIs(c, "category", "shoes")
        /\ ResultOf(c).confidence = 90

\* C16: "add 2 packs of Milo" yields intent add_to_cart with qty 2, uom "packs", a product
\* containing "milo" and category "beverages".
MiloScenario ==
    \A c \in DoneFor("add 2 packs of Milo") :
        /\ ResultOf(c).intent = "add_to_cart"
        /\ SlotIs(c, "qty", 2)
        /\ SlotIs(c, "uom", "packs")
        /\ SlotHolds(c, "product", "milo")
        /\ SlotIs(c, "category", "beverages")

\* C17: "add a pair of shoes" yields qty 2 with a product containing "shoes", and
\* "add 3 bottles of cocks" yields qty 3, uom "bottles" and a product containing "coke";
\* the leading quantity phrase goes through the number lexicon, with or without the
\* words "to cart" after the product.
QuantityParsing ==
    /\ \A c \in DoneFor("add a pair of shoes") \cup DoneFor("add a pair of shoes to cart") :
          SlotIs(c, "qty", 2) /\ SlotHolds(c, "product", "shoes")
    /\ \A c \in DoneFor("add 3 bottles of cocks") :
          SlotIs(c, "qty", 3) /\ SlotIs(c, "uom", "bottles") /\ SlotHolds(c, "product", "coke")
    /\ \A c \in DoneFor("add dozen pepsi to my basket") : SlotIs(c, "qty", 12)

\* no intent pattern matches the text
NoPatternMatches(text) ==
    \A n \in DOMAIN IntentOrder : ~Search(INTENT_PATTERNS[IntentOrder[n]], text).ok

\* neither the tagger nor the clarifier gave the call of c anything
NothingEnriched(c) ==
    /\ call[c].clarified = EmptyDict
    /\ call[c].resp.ner.kind = "ents" => call[c].resp.ner.ents = << >>

\* C18: for every text that no intent pattern matches, when enrichment contributes
\* nothing, the Result has intent unknown, no product slot, confidence 0.3 and the
\* generic fallback reply.
UnmatchedIsUnknown ==
    \A c \in Done :
        (NothingEnriched(c) /\ NoPatternMatches(call[c].text)) =>
            /\ ResultOf(c).intent = "unknown"
            /\ ~Has(ResultOf(c).slots, "product")
            /\ ResultOf(c).confidence = 30
            /\ ResultOf(c).reply = <<"Sorry, I didn't understand that.">>

\* the nonsense word was answered, nothing enriching it
NonsenseAnswered ==
    \E c \in DoneFor("asdkjasd") : NothingEnriched(c) /\ ResultOf(c).intent = "unknown"

\* C19: every text that contains a show-cart trigger phrase ("show cart", "show my cart",
\* "view cart") is classified show_cart, not search_product with a product such as "cart".
ShowCartTriggers ==
    \A c \in DoneFor("show cart") \cup DoneFor("show my cart") \cup DoneFor("view cart") :
        ResultOf(c).intent = "show_cart"

\* C20: every currency token a price phrase captures ends up in the currency slot as one
\* of the display symbols "$", "Rs", "€", "£".
CurrencyNormalized ==
    \A c \in Done :
        (Has(ResultOf(c).slots, "currency") /\ ~Has(call[c].clarified, "currency"))
            => ResultOf(c).slots["currency"] \in Range(CURRENCY_SYMBOL_FOR)

(***************************************************************************)
(* The sanitizer, lines 117-122                                            *)
(***************************************************************************)
\* what _sanitize returns for each text a specification draws
SanitizedOf == [t \in AllTexts |-> _sanitize(t)]

\* the injection tokens of line 121, in lower case
InjectionTokens ==
    {Backquote \o Backquote \o Backquote, "<script>", "</script>", "@everyone", "@here"}

\* out is what the sanitizer promises: bounded, free of control characters and of
\* injection tokens in any letter case, and stripped
Sanitized(out) ==
    /\ Len(out) <= _MAX_TEXT_LEN
    /\ \A i \in 1..Len(out) : At(out, i) \notin CtrlChars
    /\ \A tok \in InjectionTokens : ~Contains(Lower(out), tok)
    /\ out = Strip(out)

\* whether the sanitizer keeps its promise for each text a specification draws
SanitizedFor == [t \in AllTexts |-> Sanitized(SanitizedOf[t])]

\* C21: for every input text, null and empty included, the sanitizer returns a string
\* of at most 600 characters with no control character of its class, none of the
\* injection tokens in any letter case and no leading or trailing white space; a null or
\* empty input gives the empty string.
SanitizerContract ==
    \A c \in Threads :
        call[c].pc # "idle" =>
            /\ SanitizedFor[call[c].input.text]
            /\ call[c].input.text \in {None, Some("")} => SanitizedOf[call[c].input.text] = ""

\* the over-long text was cut to 600 characters and the blanks the cut left at its end
\* were stripped
LongTextCutAndStripped ==
    \E c \in DoneFor(LongText) :
        /\ Len(Val(call[c].input.text)) > _MAX_TEXT_LEN
        /\ ResultOf(c).slots["raw"] = SanitizedOf[Some(LongText)]
        /\ Len(ResultOf(c).slots["raw"]) = _MAX_TEXT_LEN - 2

(***************************************************************************)
(* The clarifier's intent, lines 527-542                                   *)
(***************************************************************************)
\* C22: the clarifier never changes a recognized intent: its intent, with the synonyms
\* buy/purchase -> search_product and order -> add_to_cart normalized, is adopted only
\* when the matcher returned unknown, and the Result carries the intent so decided.
RecognizedIntentKept ==
    [][\A c \in Threads :
          /\ (call[c].pc = "merge" /\ call'[c].pc = "finish") =>
                call'[c].intent =
                    IF call[c].intent # "unknown" THEN call[c].intent
                    ELSE IF Has(call[c].clarified, "intent")
                         THEN MapIntent(Lower(call[c].clarified["intent"]))
                         ELSE "unknown"
          /\ (call[c].pc = "finish" /\ call'[c].pc = "done") =>
                Val(call'[c].result).intent = call[c].intent]_vars

\* the matcher recognized the text, the clarifier proposed another intent, and the
\* Result has the matcher's
ClarifierIntentDeclined ==
    \E c \in Done :
        /\ BeforeNerOf[call[c].input.text].intent # "unknown"
        /\ Has(call[c].clarified, "intent")
        /\ call[c].clarified["intent"] # BeforeNerOf[call[c].input.text].intent
        /\ ResultOf(c).intent = BeforeNerOf[call[c].input.text].intent

(***************************************************************************)
(* The clarifier's answer, field by field: lines 333-353 and 355-373       *)
(***************************************************************************)
\* what clarifying and validating make of the field k of the JSON object d when it is
\* the object's only field
FieldAlone(pipe, d, k) ==
    Let(_clarify_with_llm(pipe, Json([x \in {k} |-> d[x]])), LAMBDA r :
        IF r.raised THEN Raised ELSE _validate_structured(r.v))

\* the field k of d is valid on its own
ValidAlone(pipe, d, k) ==
    Let(FieldAlone(pipe, d, k), LAMBDA v : ~v.raised /\ Has(v.v, k))

\* C23: the clarifier's parsed JSON is validated field by field: an invalid field (a
\* price_max that is a non-numeric string, or has an "m" suffix) is dropped alone, and
\* every field that is valid on its own is still kept for the merge.
ValidFieldsSurvive ==
    \A c \in Done :
        (call[c].resp.gen.kind = "text" /\ IsSome(call[c].resp.gen.json)) =>
            \A k \in DOMAIN Val(call[c].resp.gen.json) :
                ValidAlone(call[c].pipe, Val(call[c].resp.gen.json), k) =>
                    /\ Has(call[c].clarified, k)
                    /\ k # "intent" =>
                          call[c].clarified[k] =
                              FieldAlone(call[c].pipe, Val(call[c].resp.gen.json), k).v[k]

(***************************************************************************)
(* The NER pass, lines 262-278                                             *)
(***************************************************************************)
\* the slots the pattern stages left for the call of c, and what the NER pass made of
\* them with the tagger's answer the call drew
SlotsBeforeNer(c) == BeforeNerOf[call[c].input.text].slots
SlotsAfterNer(c) == _ner_pass(_nlp, call[c].resp.ner, SlotsBeforeNer(c)).v

\* C24: the NER pass never overwrites a slot that is set, and the only slots it can add
\* are brand and price_max; every other slot, product included, is as the pattern
\* stages produced it.
NerAddsBrandAndPriceOnly ==
    \A c \in Threads :
        call[c].pc = "llm" =>
            /\ \A k \in DOMAIN SlotsBeforeNer(c) :
                  Has(SlotsAfterNer(c), k) /\ SlotsAfterNer(c)[k] = SlotsBeforeNer(c)[k]
            /\ DOMAIN SlotsAfterNer(c) \ DOMAIN SlotsBeforeNer(c) \subseteq {"brand", "price_max"}
            /\ Has(call[c].slots, "product") => Has(SlotsBeforeNer(c), "product")

(***************************************************************************)
(* The intent's own groups against the whole-text scans, lines 463-482     *)
(***************************************************************************)
\* the matcher's verdict (intent and match) on the cleaned text of each text drawn
DetectedOf == [t \in AllTexts |-> _detect(BeforeNerOf[t].text)]

\* the group g of the intent's own match for the call of c (an Optional[str])
InlineOf(c, g) == Group(call[c].text, DetectedOf[call[c].input.text].m, g)

\* the slot k after the intent-specific step is v, and the tagger's pass left it so
InlineWon(c, k, v) ==
    /\ Has(SlotsBeforeNer(c), k) /\ SlotsBeforeNer(c)[k] = v
    /\ Has(call[c].slots, k) /\ (k # "currency" => call[c].slots[k] = v)

\* C25: inline beats global: when the matched intent pattern captures a value for brand,
\* color, size, price_max, price_min or currency, the slot holds the inline value after
\* the intent-specific step, whatever the whole-text scan had found for it.
InlineBeatsGlobal ==
    \A c \in Threads :
        call[c].pc = "llm" =>
            /\ \A k \in {"brand", "color", "size"} :
                  Truthy(InlineOf(c, k)) => InlineWon(c, k, Lower(Val(InlineOf(c, k))))
            /\ \A k \in {"price_max", "price_min"} :
                  IsSome(_to_float(InlineOf(c, k))) => InlineWon(c, k, Val(_to_float(InlineOf(c, k))))
            /\ Truthy(InlineOf(c, "cur2")) => InlineWon(c, "currency", Val(InlineOf(c, "cur2")))
            /\ (Truthy(InlineOf(c, "cur1")) /\ ~Truthy(InlineOf(c, "cur2")))
                  => InlineWon(c, "currency", Val(InlineOf(c, "cur1")))

\* the whole-text scan found the brand adidas, the search pattern captured nike, and the
\* Result has nike
InlineBrandWon ==
    \E c \in DoneFor("find adidas shoes nike") :
        /\ Lower(Val(Group(call[c].text, Search(BRAND_RE, call[c].text), "1"))) = "adidas"
        /\ InlineOf(c, "brand") = Some("nike")
        /\ ~Has(call[c].clarified, "brand")
        /\ SlotIs(c, "brand", "nike")

(***************************************************************************)
(* The three price shapes, lines 438-461                                   *)
(***************************************************************************)
\* the amount (an Optional float) the group g of the first match of re in text gives
AmountIn(text, re, g) == _to_float(Group(text, Search(re, text), g))

\* the amounts of the three shapes in the cleaned text of each text drawn
PricePhrasesOf ==
    [t \in AllTexts |->
        [mn    |-> AmountIn(BeforeNerOf[t].text, PRICE_BETWEEN_RE, "min"),
         mx    |-> AmountIn(BeforeNerOf[t].text, PRICE_BETWEEN_RE, "max"),
         under |-> AmountIn(BeforeNerOf[t].text, PRICE_UNDER_RE, "val"),
         over  |-> AmountIn(BeforeNerOf[t].text, PRICE_OVER_RE, "val")]]

\* the slot k of slots is the Optional v: absent for None
SlotIsOpt(slots, k, v) == IF IsSome(v) THEN Has(slots, k) /\ slots[k] = Val(v) ELSE ~Has(slots, k)

\* C26: the price shapes are applied in the order between, under, over, and a later shape
\* never overrides an earlier one: the amounts of a between-phrase are price_min and
\* price_max even when under- and over-phrases occur too, an under-phrase sets price_max
\* only when it is still unset and an over-phrase sets price_min only when it is still
\* unset.
PriceShapesInOrder ==
    \A c \in Threads :
        call[c].pc = "llm" =>
            \E p \in {PricePhrasesOf[call[c].input.text]} :
                /\ SlotIsOpt(SlotsBeforeNer(c), "price_min", IF IsSome(p.mn) THEN p.mn ELSE p.over)
                /\ SlotIsOpt(SlotsBeforeNer(c), "price_max", IF IsSome(p.mx) THEN p.mx ELSE p.under)
                /\ SlotIsOpt(call[c].slots, "price_min", IF IsSome(p.mn) THEN p.mn ELSE p.over)

\* a text with all three shapes was answered with the amounts of its between-phrase
BetweenWonOverBounds ==
    \E c \in DoneFor("find tea between 9 and 5 under 3 over 7") :
        /\ PricePhrasesOf[call[c].input.text].under = Some(300)
        /\ PricePhrasesOf[call[c].input.text].over = Some(700)
        /\ ~call[c].llm_used
        /\ SlotIs(c, "price_min", 900) /\ SlotIs(c, "price_max", 500)

(***************************************************************************)
(* The quantity of add_to_cart, lines 466-471 and 592-596                  *)
(***************************************************************************)
\* C27: every Result whose intent is add_to_cart and whose text gives no parseable
\* leading quantity carries the slot qty = 1, the quantity its reply announces.
DefaultQuantity ==
    \A c \in Done :
        (ResultOf(c).intent = "add_to_cart" /\ ~IsSome(_to_int(InlineOf(c, "qty_num"))))
            => SlotIs(c, "qty", 1)

(***************************************************************************)
(* The category against the product, lines 253-260, 493-497 and 544-559    *)
(***************************************************************************)
\* C28: where the clarifier did not itself supply a category, the category slot of the
\* Result is present exactly when the keyword table infers a category from the final
\* product slot, and is that category, also when the clarifier replaced or supplied the
\* product.
CategoryFollowsProduct ==
    \A c \in Done :
        ~Has(call[c].clarified, "category") =>
            SlotIsOpt(ResultOf(c).slots, "category",
                      IF Has(ResultOf(c).slots, "product")
                      THEN _infer_category(ResultOf(c).slots["product"]) ELSE None)

\* C29: whenever a Result carries both price_min and price_max, price_min is strictly
\* below price_max.
PriceRangeOrdered ==
    \A c \in Done :
        (Has(ResultOf(c).slots, "price_min") /\ Has(ResultOf(c).slots, "price_max"))
            => ResultOf(c).slots["price_min"] < ResultOf(c).slots["price_max"]

(***************************************************************************)
(* The product phrase of the patterns, lines 167-175 and 484-488           *)
(***************************************************************************)
\* the text has a word boundary before the position i: a word character on exactly one
\* side
BoundaryAt(s, i) == IsWordAt(s, i - 1) # IsWordAt(s, i)

\* the span the group g of the match m covers begins and ends at word boundaries
WholeWords(s, m, g) ==
    (m.ok /\ g \in DOMAIN m.caps) => BoundaryAt(s, m.caps[g][1]) /\ BoundaryAt(s, m.caps[g][2])

\* C30: the product phrase the search_product and add_to_cart patterns capture is made
\* of whole words ("find sandals" gives "sandals", "add milk to cart" gives "milk"), so
\* that a category keyword in the phrase is visible to the category inference.
ProductIsWholeWords ==
    \A c \in Threads :
        (call[c].pc = "llm" /\ call[c].intent \in {"search_product", "add_to_cart"}) =>
            /\ WholeWords(call[c].text, DetectedOf[call[c].input.text].m, "product")
            /\ call[c].input.text = Some("find sandals") =>
                  /\ SlotIsOpt(SlotsBeforeNer(c), "product", Some("sandals"))
                  /\ SlotIsOpt(call[c].slots, "category", Some("shoes"))
            /\ call[c].input.text = Some("add milk to cart") =>
                  SlotIsOpt(SlotsBeforeNer(c), "product", Some("milk"))

=============================================================================
